---- MODULE Spec2Model ----
(***************************************************************************)
(* The session / last-action state machine of the US Kia client            *)
(* (src/src/kia_hyundai_api/us_kia.py) together with the two decorators of *)
(* src/src/kia_hyundai_api/util_http.py that wrap its methods.             *)
(*                                                                         *)
(* One client instance is used by one sequential caller.  A call is run    *)
(* by an explicit interpreter: `stack` holds the frames of the coroutines  *)
(* that are awaiting each other, `exc` the exception that is unwinding     *)
(* them, `ret` the value the last finished coroutine returned.  Every      *)
(* network round trip and every OTP callback is one step; the server and   *)
(* the callback answer nondeterministically from small sets.               *)
(*                                                                         *)
(* clean_dictionary_for_logging (src/src/kia_hyundai_api/util.py), which   *)
(* the logging decorator applies to what it logs, is followed on its own   *)
(* in SpecLog, on a heap of dict and list objects.                         *)
(***************************************************************************)
EXTENDS Integers, Sequences, FiniteSets, TLC

VARIABLES
    self,       \* the UsKia instance: its mutable fields
    stack,      \* frames of the running call, innermost last
    exc,        \* exception being propagated, or NoExc
    ret,        \* value returned by the coroutine that finished last
    call,       \* the caller's current (or last finished) call and what it observed
    pending,    \* an authenticated request was answered "session invalid" and
                \* no request has been sent since
    sent,       \* the request the last step handed to the HTTP client, if any
    poll,       \* the completion poll the last step finished, if any
    loginExit,  \* the login() invocation the last step ended, if any
    log,        \* the dictionary handed to clean_dictionary_for_logging, the heap
                \* it lives in and what the function returned
    tasks       \* two commands run as concurrent tasks on the one instance: where
                \* each task is suspended, and the order of the acknowledgements

client == <<self, stack, exc, ret, call, pending, sent, poll, loginExit>>
vars == <<self, stack, exc, ret, call, pending, sent, poll, loginExit, log, tasks>>

-----------------------------------------------------------------------------
(* Bounds of the model *)

\* OTP challenges the server opens inside one login() chain
MaxChallenges == 1
\* saturation value of the per-call counters
MaxCount == 3
\* OTP challenges the server opens inside one login() chain when login() is
\* followed on its own
MaxNested == 2
\* nesting of dictionaries and lists below the top of a logged dictionary
MaxDepth == 3

-----------------------------------------------------------------------------
(* Values *)

None == "None"
NoExc == "none"

Sids == {"s1", "s2"}
RmTokens == {"r1"}
Xids == {"x1", "x2"}
OtpKeys == {"otp1"}
\* identifiers the caller asks for: "A" may be in the directory, "B" never is
VehicleIds == {"A", "B"}

\* last_action is None or a dict with the keys name and xid
NoAction == [name |-> None, xid |-> None]
\* vehicles is None or a list of vehicle summaries
NoVehicles == <<[vehicleIdentifier |-> None, vehicleKey |-> None]>>

\* vehicleSummary lists the server may return
Directories ==
    { <<>>,
      <<[vehicleIdentifier |-> "C", vehicleKey |-> "k0"],
        [vehicleIdentifier |-> "A", vehicleKey |-> "k1"]>> }

\* the values of the payload of a cmm/gts response
PollPayloads == { <<>>, <<0, 0>>, <<0, 1>> }

Commands ==
    {"lock", "unlock", "start_climate", "stop_climate",
     "start_charge", "stop_charge", "set_charge_limits"}
StatusOps == {"get_cached_vehicle_status", "request_vehicle_data_sync"}

\* the requests the client sends; "cmd" stands for the seven command endpoints
Kinds == {"authUser", "sendOTP", "verifyOTP", "gvl", "gvi", "rvs", "gts", "cmd"}

Min(a, b) == IF a < b THEN a ELSE b
Inc(n) == Min(n + 1, MaxCount)

-----------------------------------------------------------------------------
(* The server's answers *)

\* status blocks of a response body: statusCode, errorType, errorCode
OkStatus == [statusCode |-> 0, errorType |-> 0, errorCode |-> 0]
ErrStatuses ==
    { [statusCode |-> 1, errorType |-> 1, errorCode |-> c] : c \in {1001, 1003, 1005, 1037, 9001} }
    \cup { [statusCode |-> 1, errorType |-> 2, errorCode |-> 1003],
           [statusCode |-> 2, errorType |-> 1, errorCode |-> 1003] }

\* a response: whether the HTTP client delivered it ("error" if it raised,
\* "garbled" if it delivered a body that is not JSON), its status block,
\* its headers (sid, rmtoken, xid) and the parts of its payload the client reads
BlankReply ==
    [xid |-> None, http |-> "ok", status |-> OkStatus, sid |-> None, rmtoken |-> None,
     otpKey |-> None, rmTokenExpired |-> FALSE, dir |-> NoVehicles, payload |-> <<>>]

OkReplies(kind, mayChallenge) ==
    CASE kind = "authUser" ->
            { [BlankReply EXCEPT !.sid = s] : s \in Sids \cup {None} }
            \cup (IF mayChallenge
                  THEN { [BlankReply EXCEPT !.otpKey = k, !.xid = x, !.rmTokenExpired = e] :
                            k \in OtpKeys, x \in {None, "x0"}, e \in BOOLEAN }
                  ELSE {})
      [] kind = "verifyOTP" ->
            { [BlankReply EXCEPT !.sid = s, !.rmtoken = r] :
                s \in Sids \cup {None}, r \in RmTokens \cup {None} }
      [] kind = "gvl" -> { [BlankReply EXCEPT !.dir = d] : d \in Directories }
      [] kind = "gts" -> { [BlankReply EXCEPT !.payload = p] : p \in PollPayloads }
      [] kind = "cmd" -> { [BlankReply EXCEPT !.xid = x] : x \in Xids \cup {None} }
      [] OTHER -> { BlankReply }

Replies(kind, mayChallenge) ==
    OkReplies(kind, mayChallenge)
    \cup { [BlankReply EXCEPT !.status = s] : s \in ErrStatuses }
    \cup { [BlankReply EXCEPT !.http = "error"] }
    \cup { [BlankReply EXCEPT !.http = "garbled"] }

-----------------------------------------------------------------------------
(* The OTP callback's answers *)

Missing == "<missing>"
Raises == "<raises>"
\* value under notify_type in the answer to stage choose_destination
ChoiceReplies == {Missing, "SMS", "sms", "PUSH", Raises}
\* value under otp_code in the answer to stage input_code
CodeReplies == {Missing, "", " ", "123456", Raises}

\* str.upper() on the answers above
Upper(s) == IF s = "sms" THEN "SMS" ELSE s
\* str.strip() on the answers above
Strip(s) == IF s = " " THEN "" ELSE s

\* a dispatch that would always go to the e-mail address
NotifyTypeOfEmail(reply) == "EMAIL"

\* notify_type = str(callback_response.get("notify_type", "EMAIL")).upper()
NotifyTypeOf(reply) == Upper(IF reply = Missing THEN "EMAIL" ELSE reply)

\* a variant that takes str(None) when the key is missing
OtpCodeOfNoDefault(reply) == Strip(IF reply = Missing THEN "None" ELSE reply)

\* otp_code = str(otp_callback_response.get("otp_code", "")).strip()
OtpCodeOf(reply) == Strip(IF reply = Missing THEN "" ELSE reply)

\* Python truthiness of an optional string
Truthy(v) == v # None /\ v # ""

-----------------------------------------------------------------------------
(* Pure parts of the client *)

\* header construction that would drop the vehicle key
ApiHeadersNoVinkey(s, vehicle_key) ==
    [ xid |-> IF s.otp_key # None THEN s.last_action.xid ELSE None,
      sid |-> s.session_id,
      rmtoken |-> s.refresh_token,
      error |-> s.otp_key # None
                /\ (s.notify_type = None \/ s.last_action = NoAction),
      deviceid |-> s.device_id,
      otpkey |-> s.otp_key,
      notifytype |-> IF s.otp_key # None THEN s.notify_type ELSE None,
      vinkey |-> None ]

\* _api_headers: the headers that depend on the session state, or a ValueError
ApiHeaders(s, vehicle_key) ==
    [ xid |-> IF s.otp_key # None THEN s.last_action.xid ELSE None,
      sid |-> s.session_id,
      rmtoken |-> s.refresh_token,
      error |-> s.otp_key # None
                /\ (s.notify_type = None \/ s.last_action = NoAction),
      deviceid |-> s.device_id,
      otpkey |-> s.otp_key,
      notifytype |-> IF s.otp_key # None THEN s.notify_type ELSE None,
      vinkey |-> vehicle_key ]

\* a header builder that would use up the OTP key
AfterApiHeadersSpendsOtp(s, vehicle_key) == [s EXCEPT !.otp_key = None]

\* the client after _api_headers: the function reads self.device_id,
\* self.session_id, self.refresh_token, self.otp_key, self.notify_type and
\* self.last_action and assigns to none of them, on either exit
AfterApiHeaders(s, vehicle_key) == s

\* error classes that would derive from RuntimeError
ErrorsDeriveFromRuntimeError == TRUE

\* the except RuntimeError clause of request_with_logging encloses the raise
\* statements of the classifier: it catches them iff the error classes derive
\* from RuntimeError
ErrorsAreRuntimeErrors == FALSE

\* a variant whose first branch leaves out code 1037
ClassifyBranchNo1037(st) ==
    IF st.statusCode = 0 THEN "return"
    ELSE IF st.statusCode = 1 /\ st.errorType = 1
            /\ (st.errorCode = 1001 \/ st.errorCode = 1003 \/ st.errorCode = 1005)
         THEN "AuthError"
    ELSE "ClientError"

\* the branch of request_with_logging a status block takes
ClassifyBranch(st) ==
    IF st.statusCode = 0 THEN "return"
    ELSE IF st.statusCode = 1 /\ st.errorType = 1
            /\ (st.errorCode = 1001 \/ st.errorCode = 1003
                \/ st.errorCode = 1005 \/ st.errorCode = 1037)
         THEN "AuthError"
    ELSE IF st.statusCode = 1 /\ st.errorType = 1 /\ st.errorCode = 1001
         THEN "ActionAlreadyInProgressError"
    ELSE "ClientError"

\* what request_with_logging raises ("return" when it returns the response)
Classify(st) ==
    LET b == ClassifyBranch(st)
    IN  IF b \in {"AuthError", "ActionAlreadyInProgressError"} /\ ErrorsAreRuntimeErrors
        THEN "ClientError"
        ELSE b

\* the side effect of the classifier on the client
ClassifyEffect(s, st) ==
    IF ClassifyBranch(st) = "ActionAlreadyInProgressError"
    THEN [s EXCEPT !.last_action = NoAction]
    ELSE s

\* a handler that would also drop the refresh token
RepairDropsToken(s) ==
    [s EXCEPT !.session_id = None, !.refresh_token = None, !.vehicles = NoVehicles,
              !.last_action = NoAction]

\* a handler that would leave the marker in place
RepairKeepsMarker(s) == [s EXCEPT !.session_id = None, !.vehicles = NoVehicles]

\* the except AuthError handler of request_with_active_session
Repair(s) ==
    [s EXCEPT !.session_id = None, !.vehicles = NoVehicles, !.last_action = NoAction]

\* finished = all(v == 0 for v in response_json["payload"].values())
AllZero(payload) == \A i \in 1..Len(payload) : payload[i] = 0

\* the linear scan of find_vehicle_key: the key of the first match, or None
FindKey(vehicles, vehicle_id) ==
    LET hits == { i \in 1..Len(vehicles) : vehicles[i].vehicleIdentifier = vehicle_id }
    IN  IF hits = {} THEN None
        ELSE vehicles[CHOOSE i \in hits : \A j \in hits : i <= j].vehicleKey

\* a challenge that would keep a refresh token flagged as expired
OpenChallengeKeepsToken(s, resp) ==
    [s EXCEPT !.otp_key = resp.otpKey,
              !.last_action = [name |-> "one_time_password", xid |-> resp.xid]]

\* the head of the OTP branch of login
OpenChallenge(s, resp) ==
    [s EXCEPT !.refresh_token = IF resp.rmTokenExpired THEN None ELSE @,
              !.otp_key = resp.otpKey,
              !.last_action = [name |-> "one_time_password", xid |-> resp.xid]]

\* a variant that leaves notify_type alone
LoginFinallyKeepsType(s) == [s EXCEPT !.otp_key = None, !.last_action = NoAction]

\* the finally clause of login
LoginFinally(s) ==
    [s EXCEPT !.otp_key = None, !.last_action = NoAction, !.notify_type = None]

\* a variant that clears nothing
VerifyClearNothing(s) == s

\* the three assignments of _verify_otp that follow its request
VerifyClear(s) ==
    [s EXCEPT !.last_action = NoAction, !.otp_key = None, !.notify_type = None]

\* a variant that keeps the refresh token the client had
VerifyStoreSidOnly(s, resp) == [s EXCEPT !.session_id = resp.sid]

\* the two assignments that end _verify_otp
VerifyStore(s, resp) ==
    [s EXCEPT !.session_id = resp.sid, !.refresh_token = resp.rmtoken]

\* a variant that stores no transaction id
CommandMarkerNoXid(name, resp) == [name |-> name, xid |-> None]

\* the marker a command stores
CommandMarker(name, resp) == [name |-> name, xid |-> resp.xid]

\* a variant in which no poll result stops a command
PollBlocksNever(val) == FALSE

\* "if await self.check_last_action_finished(...) is False" in every command
PollBlocks(val) == val = "False"

-----------------------------------------------------------------------------
(* Frames of the interpreter *)

\* what a login() invocation that met an OTP challenge has seen of it: the
\* callback's answers, the OTP requests sent, the tokens of the verify response
\* and the number of times the callback was invoked; stale is the refresh token
\* the challenge's login response flagged as expired ("-" when it flagged none),
\* kept until the verify response brings a new one
NoOtp ==
    [choice |-> "-", code |-> "-", nsend |-> 0, nverify |-> 0, sendType |-> "-",
     verifyCode |-> "-", verified |-> FALSE, vsid |-> None, vrm |-> None, nask |-> 0,
     stale |-> "-"]

\* a coroutine that has been called and has not finished: the function, the
\* statement it continues with, its arguments and locals.  attempt is 1 or 2
\* for a function decorated with request_with_active_session, 0 otherwise
Frame(fn) ==
    [name |-> "-", kind |-> "-", fn |-> fn, pc |-> "start", vid |-> "-", attempt |-> 0,
     authed |-> FALSE, vkey |-> None, body |-> "-", otp |-> NoOtp]

Wrapped(fn, vid, name) == [Frame(fn) EXCEPT !.vid = vid, !.name = name, !.attempt = 1]

\* _post_request_with_logging_and_errors_raised / _get_request_with_logging_and_errors_raised
ReqFrame(kind, authed, vkey, body) ==
    [Frame("request") EXCEPT !.kind = kind, !.authed = authed, !.vkey = vkey, !.body = body]

\* statements of login that lie inside its try block
TryPcs == {"choose", "input", "relogin", "return"}

Top == stack[Len(stack)]
Rest == SubSeq(stack, 1, Len(stack) - 1)
WithTop(f) == Append(Rest, f)
AtPc(fn, pc) == stack # <<>> /\ exc = NoExc /\ Top.fn = fn /\ Top.pc = pc

\* a handler that would intercept every failure
CatchesAnything(f, e) == f.attempt = 1

\* a wrapper without the except clause
CatchesNever(f, e) == FALSE

\* an exception e raised with frames stk passes every frame that neither catches
\* it nor is a login() (whose exit is a step of its own): what is left of stk
Catches(f, e) == f.attempt = 1 /\ e = "AuthError"
Handlers(stk, e) == { i \in 1..Len(stk) : stk[i].fn = "login" \/ Catches(stk[i], e) }
UnwindTo(stk, e) ==
    IF Handlers(stk, e) = {} THEN <<>>
    ELSE SubSeq(stk, 1, CHOOSE i \in Handlers(stk, e) : \A j \in Handlers(stk, e) : j <= i)

\* the frame continues at pc and awaits the coroutine g
Await(pc, g) == Append(WithTop([Top EXCEPT !.pc = pc]), g)

RetVal(v) == [resp |-> BlankReply, val |-> v]
RetResp(r) == [resp |-> r, val |-> None]

\* the login() invocations on the stack, and those with a challenge open
Logins(stk) == { i \in 1..Len(stk) : stk[i].fn = "login" }
OpenChallenges == Cardinality({ i \in Logins(stack) : stack[i].pc \in TryPcs })
Innermost(S) == CHOOSE i \in S : \A j \in S : j <= i

\* the OTP requests are counted in the login() invocation that sends them
NoteOtp(stk, f, s) ==
    IF f.kind \notin {"sendOTP", "verifyOTP"} \/ Logins(stk) = {} THEN stk
    ELSE LET i == Innermost(Logins(stk))
         IN  IF f.kind = "sendOTP"
             THEN [stk EXCEPT ![i].otp.nsend = Inc(@), ![i].otp.sendType = s.notify_type]
             ELSE [stk EXCEPT ![i].otp.nverify = Inc(@), ![i].otp.verifyCode = f.body]

\* a challenge that opens inside a re-entered login() starts the record afresh: only
\* the round trip of the innermost open challenge is followed
Supersede(stk) ==
    [i \in 1..Len(stk) |-> IF stk[i].fn = "login" THEN [stk[i] EXCEPT !.otp = NoOtp]
                                                  ELSE stk[i]]

-----------------------------------------------------------------------------
(* What is recorded about a run *)

\* stands for the marker a call started with once a repair has reset the client
Forgotten == [name |-> "<forgotten>", xid |-> None]

NoCall ==
    [vid |-> "-", op |-> "none", done |-> TRUE, result |-> "-", value |-> None,
     before |-> NoAction, contacted |-> FALSE, pollFalse |-> FALSE, ncmd |-> 0, nauthinv |-> 0,
     repoll |-> "-", gtsInvalid |-> FALSE, loginAuth |-> "-"]

\* repoll: the call is a poll that directly follows a poll that returned True,
\* for the same vehicle or for another one.  gtsInvalid: a status-check request
\* of the call was answered "session invalid".  loginAuth: a login() of the call
\* has raised AuthError during the first run of the method called ("failed"),
\* and login() was entered again after that ("again")
NewCall(op, vid) ==
    [NoCall EXCEPT !.op = op, !.vid = vid, !.done = FALSE,
                   !.before = self.last_action,
                   !.repoll = IF op = "check_last_action_finished" /\ call.op = op
                                 /\ call.result = "ok" /\ call.value = "True"
                              THEN IF call.vid = vid THEN "same" ELSE "other"
                              ELSE "-"]

BlankSelf ==
    [otp_key |-> None, last_action |-> NoAction, session_id |-> None, refresh_token |-> None,
     notify_type |-> None, device_id |-> None, vehicles |-> NoVehicles]

NoSent ==
    [http |-> "-", status |-> OkStatus, kind |-> "none", authed |-> FALSE, body |-> "-",
     headers |-> ApiHeaders(BlankSelf, None), marker |-> NoAction, vehiclesNone |-> TRUE, relogin |-> FALSE,
     afterAuthInvalid |-> FALSE, authInvalid |-> FALSE, viaLogin |-> FALSE]

NoPoll ==
    [payload |-> <<>>, before |-> NoAction, seen |-> FALSE, finished |-> FALSE,
     after |-> NoAction]

NoLoginExit ==
    [exc |-> NoExc, sid |-> None, otp |-> NoOtp, how |-> "none", challenged |-> FALSE]

\* the login() invocation of frame f ends
LoginExited(how, e, f) ==
    [exc |-> e, sid |-> f.body, otp |-> f.otp, how |-> how, challenged |-> f.pc \in TryPcs]

-----------------------------------------------------------------------------
(* The classifiers of the other two clients: request_with_logging of
   us_hyundai.py and request_with_logging_and_errors_raised of ca.py *)

\* bodies of US Hyundai responses: whether "errorCode" is there, and the codes
UsHyundaiBodies ==
    { [errorCode |-> c, errorSubCode |-> s, hasErrorCode |-> b] :
        c \in {502, 504}, s \in {"", "HT_534", "IDM_401_1"}, b \in BOOLEAN }

UsHyundaiClassify(body) ==
    IF ~body.hasErrorCode THEN "return"
    ELSE IF body.errorCode = 502 /\ body.errorSubCode = "HT_534" THEN "RateError"
    ELSE IF body.errorCode = 502 /\ body.errorSubCode = "IDM_401_1" THEN "AuthError"
    ELSE "ClientError"

\* bodies of Canadian responses: responseHeader.responseCode and error.errorCode
CaBodies ==
    { [errorCode |-> c, responseCode |-> r] :
        c \in {"7404", "7310", "6533", "6534", "9999"}, r \in {0, 1} }

CaClassify(body) ==
    IF body.responseCode = 0 THEN "return"
    ELSE IF body.errorCode \in {"7404", "7310"} THEN "AuthError"
    ELSE IF body.errorCode \in {"6533", "6534"} THEN "RateError"
    ELSE "ClientError"

-----------------------------------------------------------------------------
(* util.py: clean_dictionary_for_logging, on a heap of dict and list objects *)

\* const.py
SENSITIVE_FIELD_NAMES == {"username", "password", "userid", "vin", "sid", "vinkey", "lat", "lon"}

\* keys of the logged documents, and str.lower on them
Keys == {"vin", "Vin", "name"}
Lower(key) == IF key = "Vin" THEN "vin" ELSE key

Mask == "***"

\* a value as the caller sees it: a string, a dict (its entries in order, each
\* under its key) or a list (its items)
Str(v) == [key |-> "-", type |-> "str", str |-> v, items |-> <<>>]
Under(key, node) == [node EXCEPT !.key = key]
DictsOver(vals) ==
    { [key |-> "-", type |-> "dict", str |-> "-", items |-> <<Under(k1, v)>>] :
        k1 \in Keys, v \in vals }
ListsOver(vals) ==
    { [key |-> "-", type |-> "list", str |-> "-", items |-> <<v>>] : v \in vals }
PairsOver(vals) ==
    { [key |-> "-", type |-> "dict", str |-> "-", items |-> <<Under(k[1], v), Under(k[2], w)>>] :
        k \in {kk \in Keys \X Keys : kk[1] # kk[2]}, v \in vals, w \in vals }

\* strings, and dictionaries and lists nested up to depth deep
RECURSIVE ValuesOfDepth(_)
ValuesOfDepth(depth) ==
    IF depth = 0 THEN {Str("x")}
    ELSE {Str("x")} \cup DictsOver(ValuesOfDepth(depth - 1))
                   \cup ListsOver(ValuesOfDepth(depth - 1))
\* the dictionaries handed to the function: one entry over the nested values,
\* or two entries
Documents == DictsOver(ValuesOfDepth(MaxDepth)) \cup PairsOver(ValuesOfDepth(1))

\* the heap: objects by address; a slot of an object holds a string or the
\* address of an object
Slot(key, ref, v) == [key |-> key, str |-> v, ref |-> ref]
StrSlot(key, v) == Slot(key, 0, v)
RefSlot(key, ref) == Slot(key, ref, "-")
Object(type, slots) == [type |-> type, slots |-> slots]

Alloc(heap, obj) == [heap |-> Append(heap, obj), at |-> Len(heap) + 1]
\* container[index] = slot, the key of the entry kept
Store(heap, at, index, slot) ==
    [heap EXCEPT ![at].slots[index] = Slot(@.key, slot.ref, slot.str)]
\* list.append
AppendTo(heap, at, slot) == [heap EXCEPT ![at].slots = Append(@, slot)]

IsA(heap, slot, type) == slot.ref # 0 /\ heap[slot.ref].type = type

\* a value is put on the heap, children first
RECURSIVE Load(_, _), LoadItems(_, _, _, _)
Load(heap, node) ==
    IF node.type = "str" THEN [heap |-> heap, slot |-> StrSlot(node.key, node.str)]
    ELSE LET done == LoadItems(heap, node.items, 1, <<>>)
             obj == Alloc(done.heap, Object(node.type, done.slots))
         IN  [heap |-> obj.heap, slot |-> RefSlot(node.key, obj.at)]
LoadItems(heap, items, index, slots) ==
    IF index > Len(items) THEN [slots |-> slots, heap |-> heap]
    ELSE LET one == Load(heap, items[index])
         IN  LoadItems(one.heap, items, index + 1, Append(slots, one.slot))

\* the value a slot stands for
RECURSIVE Value(_, _)
Value(heap, slot) ==
    IF slot.ref = 0 THEN Under(slot.key, Str(slot.str))
    ELSE [key |-> slot.key, type |-> heap[slot.ref].type, str |-> "-",
          items |-> [i \in 1..Len(heap[slot.ref].slots) |-> Value(heap, heap[slot.ref].slots[i])]]
ValueAt(heap, at) == Value(heap, RefSlot("-", at))

\* dict.copy() that would hand back the dictionary itself
CopyNothing(heap, at) == [heap |-> heap, at |-> at]

\* dict.copy(): a new dictionary with the same slots
Copy(heap, at) == Alloc(heap, heap[at])

RECURSIVE clean_dictionary_for_logging(_, _), CleanKeys(_, _, _, _), CleanItems(_, _, _, _)

\* for key in dictionary: ..., from the entry at index on
CleanKeys(heap, dictionary, mutable_dictionary, index) ==
    IF index > Len(heap[dictionary].slots)
    THEN [heap |-> heap, at |-> mutable_dictionary]
    ELSE LET key == heap[dictionary].slots[index].key
             h1 == IF Lower(key) \in SENSITIVE_FIELD_NAMES
                   THEN Store(heap, mutable_dictionary, index, StrSlot(key, Mask))
                   ELSE heap
             s1 == h1[mutable_dictionary].slots[index]
             h2 == IF IsA(h1, s1, "dict")
                   THEN LET c == Copy(h1, s1.ref)
                            r == clean_dictionary_for_logging(c.heap, c.at)
                        IN  Store(r.heap, mutable_dictionary, index, RefSlot(key, r.at))
                   ELSE h1
             s2 == h2[mutable_dictionary].slots[index]
             h3 == IF IsA(h2, s2, "list")
                   THEN LET new_array == Alloc(h2, Object("list", <<>>))
                            r == CleanItems(new_array.heap, s2.ref, new_array.at, 1)
                        IN  Store(r.heap, mutable_dictionary, index, RefSlot(key, r.at))
                   ELSE h2
         IN  CleanKeys(h3, dictionary, mutable_dictionary, index + 1)

\* for item in mutable_dictionary[key]: ..., from the item at index on
CleanItems(heap, list, new_array, index) ==
    IF index > Len(heap[list].slots)
    THEN [heap |-> heap, at |-> new_array]
    ELSE LET item == heap[list].slots[index]
         IN  IF IsA(heap, item, "dict")
             THEN LET c == Copy(heap, item.ref)
                      r == clean_dictionary_for_logging(c.heap, c.at)
                  IN  CleanItems(AppendTo(r.heap, new_array, RefSlot("-", r.at)),
                                 list, new_array, index + 1)
             ELSE CleanItems(AppendTo(heap, new_array, item), list, new_array, index + 1)

clean_dictionary_for_logging(heap, dictionary) ==
    LET mutable_dictionary == Copy(heap, dictionary)
    IN  CleanKeys(mutable_dictionary.heap, dictionary, mutable_dictionary.at, 1)

\* nothing is being logged.  input is the value of the dictionary when it was
\* handed over, once the value of the first result when it was returned
NoLog == [heap |-> <<>>, input |-> Str("-"), doc |-> 0, out |-> 0, again |-> 0, once |-> Str("-")]
\* the dictionary d is on the heap, about to be cleaned
Logging(d) ==
    LET l == Load(<<>>, d)
    IN  [heap |-> l.heap, input |-> d, doc |-> l.slot.ref, out |-> 0, again |-> 0,
         once |-> Str("-")]

-----------------------------------------------------------------------------
(* Construction *)

Constructed ==
    /\ self \in { [BlankSelf EXCEPT !.refresh_token = r, !.device_id = "dev1"] : r \in RmTokens \cup {None} }
    /\ stack = <<>>
    /\ exc = NoExc
    /\ ret = RetVal(None)
    /\ call = NoCall
    /\ pending = FALSE
    /\ sent = NoSent
    /\ poll = NoPoll
    /\ loginExit = NoLoginExit

\* no concurrent tasks: the instance is used by one sequential caller
NoTasks == [run |-> <<>>, acked |-> <<>>, overlap |-> FALSE]

Init == Constructed /\ log = NoLog /\ tasks = NoTasks

\* a step that sends no request, finishes no poll and ends no login(); what the
\* requests log is not followed here
Quiet == sent' = NoSent /\ poll' = NoPoll /\ loginExit' = NoLoginExit /\ UNCHANGED <<log, tasks>>

-----------------------------------------------------------------------------
(* The caller *)

Idle == stack = <<>> /\ exc = NoExc /\ call.done

Invoke(op, vid, frame) ==
    /\ Idle
    /\ stack' = <<frame>>
    /\ call' = NewCall(op, vid)
    /\ ret' = RetVal(None)
    /\ Quiet
    /\ UNCHANGED <<self, exc, pending>>

CallGetVehicles == Invoke("get_vehicles", "-", Wrapped("get_vehicles", "-", "-"))

CallStatus ==
    \E op \in StatusOps, vid \in VehicleIds : Invoke(op, vid, Wrapped("status", vid, op))

CallCheckLastActionFinished ==
    \E vid \in VehicleIds :
        Invoke("check_last_action_finished", vid, Wrapped("check_last_action_finished", vid, "-"))

CallCommand ==
    \E name \in Commands, vid \in VehicleIds : Invoke(name, vid, Wrapped("command", vid, name))

CallLogin == Invoke("login", "-", Frame("login"))

\* the call is over: it returned to the caller or raised
Finish ==
    /\ stack = <<>>
    /\ ~call.done
    /\ call' = [call EXCEPT !.done = TRUE,
                            !.result = IF exc = NoExc THEN "ok" ELSE exc,
                            !.value = IF exc = NoExc THEN ret.val ELSE None]
    /\ exc' = NoExc
    /\ ret' = RetVal(None)
    /\ Quiet
    /\ UNCHANGED <<self, stack, pending>>

-----------------------------------------------------------------------------
(* get_vehicles *)

GetVehiclesRequest ==
    /\ AtPc("get_vehicles", "start")
    /\ stack' = Await("store", ReqFrame("gvl", TRUE, None, "-"))
    /\ Quiet
    /\ UNCHANGED <<self, exc, ret, call, pending>>

\* self.vehicles = response_json["payload"]["vehicleSummary"]
GetVehiclesStore ==
    /\ AtPc("get_vehicles", "store")
    /\ self' = [self EXCEPT !.vehicles = ret.resp.dir]
    /\ stack' = Rest
    /\ ret' = RetVal(None)
    /\ Quiet
    /\ UNCHANGED <<exc, call, pending>>

-----------------------------------------------------------------------------
(* find_vehicle_key *)

\* if self.vehicles is None: await self.get_vehicles()
FindVehicleKeyFetch ==
    /\ AtPc("find_vehicle_key", "start")
    /\ self.vehicles = NoVehicles
    /\ stack' = Await("scan", Wrapped("get_vehicles", "-", "-"))
    /\ Quiet
    /\ UNCHANGED <<self, exc, ret, call, pending>>

FindVehicleKeyScan ==
    /\ \/ AtPc("find_vehicle_key", "scan")
       \/ AtPc("find_vehicle_key", "start") /\ self.vehicles # NoVehicles
    /\ LET key == IF self.vehicles = NoVehicles THEN None
                  ELSE FindKey(self.vehicles, Top.vid)
       IN  IF key = None
           THEN /\ exc' = "ValueError"
                /\ stack' = UnwindTo(stack, "ValueError")
                /\ ret' = RetVal(None)
           ELSE /\ stack' = Rest
                /\ ret' = RetVal(key)
                /\ UNCHANGED exc
    /\ Quiet
    /\ UNCHANGED <<self, call, pending>>

-----------------------------------------------------------------------------
(* get_cached_vehicle_status and request_vehicle_data_sync *)

StatusKind(op) == IF op = "get_cached_vehicle_status" THEN "gvi" ELSE "rvs"

StatusFind ==
    /\ AtPc("status", "start")
    /\ stack' = Await("request", [Frame("find_vehicle_key") EXCEPT !.vid = Top.vid])
    /\ Quiet
    /\ UNCHANGED <<self, exc, ret, call, pending>>

StatusRequest ==
    /\ AtPc("status", "request")
    /\ stack' = Append(WithTop([Top EXCEPT !.pc = "done", !.vkey = ret.val]),
                       ReqFrame(StatusKind(Top.name), TRUE, ret.val, "-"))
    /\ Quiet
    /\ UNCHANGED <<self, exc, ret, call, pending>>

StatusReturn ==
    /\ AtPc("status", "done")
    /\ stack' = Rest
    /\ ret' = RetVal(None)
    /\ Quiet
    /\ UNCHANGED <<self, exc, call, pending>>

-----------------------------------------------------------------------------
(* check_last_action_finished *)

PollFind ==
    /\ AtPc("check_last_action_finished", "start")
    /\ stack' = Await("check", [Frame("find_vehicle_key") EXCEPT !.vid = Top.vid])
    /\ Quiet
    /\ UNCHANGED <<self, exc, ret, call, pending>>

\* if self.last_action is None: return True
PollVacuous ==
    /\ AtPc("check_last_action_finished", "check")
    /\ self.last_action = NoAction
    /\ stack' = Rest
    /\ ret' = RetVal("True")
    /\ Quiet
    /\ UNCHANGED <<self, exc, call, pending>>

\* body = {"xid": self.last_action["xid"]} and the request to cmm/gts
PollRequest ==
    /\ AtPc("check_last_action_finished", "check")
    /\ self.last_action # NoAction
    /\ stack' = Append(WithTop([Top EXCEPT !.pc = "finish", !.vkey = ret.val,
                                           !.name = self.last_action.name,
                                           !.body = self.last_action.xid]),
                       ReqFrame("gts", TRUE, ret.val, self.last_action.xid))
    /\ Quiet
    /\ UNCHANGED <<self, exc, ret, call, pending>>

\* a poll that would leave the marker in place
PollSettleKeeps(s, finished) == s

\* what the poll does with the marker once the response is in
PollSettle(s, finished) == IF finished THEN [s EXCEPT !.last_action = NoAction] ELSE s

PollFinish ==
    /\ AtPc("check_last_action_finished", "finish")
    /\ LET finished == AllZero(ret.resp.payload)
       IN  /\ self' = PollSettle(self, finished)
           /\ ret' = RetVal(IF finished THEN "True" ELSE "False")
           /\ poll' = [payload |-> ret.resp.payload,
                       before |-> [name |-> Top.name, xid |-> Top.body],
                       seen |-> TRUE, finished |-> finished,
                       after |-> self'.last_action]
    /\ stack' = Rest
    /\ sent' = NoSent
    /\ loginExit' = NoLoginExit
    /\ UNCHANGED <<exc, call, pending>>
    /\ UNCHANGED <<log, tasks>>

-----------------------------------------------------------------------------
(* lock, unlock, start_climate, stop_climate, start_charge, stop_charge,
   set_charge_limits *)

CommandPoll ==
    /\ AtPc("command", "start")
    /\ stack' = Await("polled", Wrapped("check_last_action_finished", Top.vid, "-"))
    /\ Quiet
    /\ UNCHANGED <<self, exc, ret, call, pending>>

\* raise ActionAlreadyInProgressError("{} still pending".format(self.last_action["name"]))
CommandRefuse ==
    /\ AtPc("command", "polled")
    /\ PollBlocks(ret.val)
    /\ exc' = IF self.last_action = NoAction THEN "TypeError" ELSE "ActionAlreadyInProgressError"
    /\ stack' = UnwindTo(stack, exc')
    /\ ret' = RetVal(None)
    /\ call' = [call EXCEPT !.pollFalse = TRUE]
    /\ Quiet
    /\ UNCHANGED <<self, pending>>

CommandFind ==
    /\ AtPc("command", "polled")
    /\ ~PollBlocks(ret.val)
    /\ stack' = Await("request", [Frame("find_vehicle_key") EXCEPT !.vid = Top.vid])
    /\ Quiet
    /\ UNCHANGED <<self, exc, ret, call, pending>>

CommandRequest ==
    /\ AtPc("command", "request")
    /\ stack' = Append(WithTop([Top EXCEPT !.pc = "mark", !.vkey = ret.val]),
                       ReqFrame("cmd", TRUE, ret.val, Top.name))
    /\ Quiet
    /\ UNCHANGED <<self, exc, ret, call, pending>>

\* self.last_action = {"name": ..., "xid": response.headers["Xid"]}
CommandMark ==
    /\ AtPc("command", "mark")
    /\ IF ret.resp.xid = None
       THEN /\ exc' = "KeyError"
            /\ stack' = UnwindTo(stack, "KeyError")
            /\ ret' = RetVal(None)
            /\ UNCHANGED self
       ELSE /\ self' = [self EXCEPT !.last_action = CommandMarker(Top.name, ret.resp)]
            /\ stack' = Rest
            /\ ret' = RetVal(None)
            /\ UNCHANGED exc
    /\ Quiet
    /\ UNCHANGED <<call, pending>>

-----------------------------------------------------------------------------
(* _post_request_with_logging_and_errors_raised,
   _get_request_with_logging_and_errors_raised, under request_with_logging *)

\* a wrapper that would never log in first
NeedsLoginNever(f) == FALSE

NeedsLogin(f) == f.authed /\ self.session_id = None

\* if authed and self.session_id is None: await self.login()
RequestLogin ==
    /\ AtPc("request", "start")
    /\ NeedsLogin(Top)
    /\ stack' = Await("send", Frame("login"))
    /\ Quiet
    /\ UNCHANGED <<self, exc, ret, call, pending>>

ReadyToSend ==
    \/ AtPc("request", "send")
    \/ AtPc("request", "start") /\ ~NeedsLogin(Top)

\* await response.json() on a body that is not JSON raises json.JSONDecodeError,
\* a ValueError: the except RuntimeError clause does not catch it
JsonFailure == "JSONDecodeError"

\* what the wrapper raises for a reply ("return" when it returns the response)
Outcome(reply) ==
    IF reply.http = "error" THEN "ClientError"
    ELSE IF reply.http = "garbled" THEN JsonFailure
    ELSE Classify(reply.status)

\* _api_headers raises ValueError and nothing is sent; or the request goes out
\* and the server's reply, one of answers, passes through request_with_logging
RequestSendWith(answers) ==
    /\ ReadyToSend
    /\ IF ApiHeaders(self, Top.vkey).error
       THEN /\ exc' = "ValueError"
            /\ stack' = UnwindTo(stack, "ValueError")
            /\ ret' = RetVal(None)
            /\ sent' = NoSent
            /\ self' = AfterApiHeaders(self, Top.vkey)
            /\ UNCHANGED <<call, pending>>
       ELSE \E reply \in answers :
            LET f == Top
                o == Outcome(reply)
                invalid == f.authed /\ o = "AuthError"
            IN  /\ sent' = [http |-> reply.http, status |-> reply.status,
                            kind |-> f.kind, authed |-> f.authed, body |-> f.body,
                            headers |-> ApiHeaders(self, f.vkey),
                            marker |-> self.last_action,
                            vehiclesNone |-> (self.vehicles = NoVehicles),
                            relogin |-> (f.kind = "authUser"
                                         /\ \E i \in Logins(stack) : stack[i].pc = "return"),
                            afterAuthInvalid |-> pending,
                            authInvalid |-> invalid,
                            viaLogin |-> (f.pc = "send")]
                /\ pending' = invalid
                /\ call' = [call EXCEPT !.contacted = TRUE,
                                        !.ncmd = IF f.kind = "cmd" THEN Inc(@) ELSE @,
                                        !.nauthinv = IF invalid THEN Inc(@) ELSE @,
                                        !.gtsInvalid = @ \/ (invalid /\ f.kind = "gts")]
                /\ IF o = "return"
                   THEN /\ stack' = NoteOtp(Rest, f, self)
                        /\ ret' = RetResp(reply)
                        /\ self' = AfterApiHeaders(self, f.vkey)
                        /\ UNCHANGED exc
                   ELSE /\ exc' = o
                        /\ self' = IF reply.http # "ok" THEN AfterApiHeaders(self, f.vkey)
                                   ELSE ClassifyEffect(AfterApiHeaders(self, f.vkey),
                                                       reply.status)
                        /\ stack' = UnwindTo(NoteOtp(stack, f, self), o)
                        /\ ret' = RetVal(None)
    /\ poll' = NoPoll
    /\ loginExit' = NoLoginExit
    /\ UNCHANGED <<log, tasks>>

\* the server opens a challenge only while fewer than depth are open
RequestSendUpTo(depth) == RequestSendWith(Replies(Top.kind, OpenChallenges < depth))

RequestSend == RequestSendUpTo(MaxChallenges)

-----------------------------------------------------------------------------
(* login *)

LoginRequest ==
    /\ AtPc("login", "start")
    /\ stack' = Await("response", ReqFrame("authUser", FALSE, None, "-"))
    /\ call' = [call EXCEPT !.loginAuth = IF @ = "failed" THEN "again" ELSE @]
    /\ Quiet
    /\ UNCHANGED <<self, exc, ret, pending>>

\* a login that would also forget the directory
LoginStoreSidForgets(s, resp) == [s EXCEPT !.session_id = resp.sid, !.vehicles = NoVehicles]

\* self.session_id = response.headers.get("sid")
LoginStoreSid(s, resp) == [s EXCEPT !.session_id = resp.sid]

\* if self.session_id: return
LoginDirect ==
    /\ AtPc("login", "response")
    /\ Truthy(ret.resp.sid)
    /\ self' = LoginStoreSid(self, ret.resp)
    /\ stack' = Rest
    /\ ret' = RetVal(None)
    /\ loginExit' = LoginExited("return", NoExc, [Top EXCEPT !.body = ret.resp.sid])
    /\ sent' = NoSent
    /\ poll' = NoPoll
    /\ UNCHANGED <<exc, call, pending>>
    /\ UNCHANGED <<log, tasks>>

\* "otpKey" in response_json["payload"]: the challenge opens
LoginChallenge ==
    /\ AtPc("login", "response")
    /\ ~Truthy(ret.resp.sid)
    /\ ret.resp.otpKey # None
    /\ self' = OpenChallenge(LoginStoreSid(self, ret.resp), ret.resp)
    /\ stack' = [Supersede(WithTop([Top EXCEPT !.pc = "choose", !.body = ret.resp.sid]))
                    EXCEPT ![Len(stack)].otp.stale =
                                IF ret.resp.rmTokenExpired /\ self.refresh_token # None
                                THEN self.refresh_token ELSE "-"]
    /\ Quiet
    /\ UNCHANGED <<exc, ret, call, pending>>

\* raise AuthError("No session id returned in login. ...")
LoginNoSession ==
    /\ AtPc("login", "response")
    /\ ~Truthy(ret.resp.sid)
    /\ ret.resp.otpKey = None
    /\ self' = LoginStoreSid(self, ret.resp)
    /\ stack' = WithTop([Top EXCEPT !.body = ret.resp.sid])
    /\ exc' = "AuthError"
    /\ ret' = RetVal(None)
    /\ Quiet
    /\ UNCHANGED <<call, pending>>

\* callback_response = await self.otp_callback(ctx_choice); await self._send_otp(notify_type)
LoginChoose ==
    /\ AtPc("login", "choose")
    /\ \E c \in ChoiceReplies :
        IF c = Raises
        THEN /\ exc' = "CallbackError"
             /\ stack' = WithTop([Top EXCEPT !.otp.choice = c, !.otp.nask = Inc(@)])
             /\ ret' = RetVal(None)
        ELSE /\ stack' = Append(WithTop([Top EXCEPT !.pc = "input", !.otp.choice = c,
                                                    !.otp.nask = Inc(@)]),
                                [Frame("_send_otp") EXCEPT !.name = NotifyTypeOf(c)])
             /\ UNCHANGED <<exc, ret>>
    /\ Quiet
    /\ UNCHANGED <<self, call, pending>>

\* otp_callback_response = await self.otp_callback(ctx_code); await self._verify_otp(otp_code)
LoginInput ==
    /\ AtPc("login", "input")
    /\ \E c \in CodeReplies :
        IF c = Raises
        THEN /\ exc' = "CallbackError"
             /\ stack' = WithTop([Top EXCEPT !.otp.code = c, !.otp.nask = Inc(@)])
             /\ ret' = RetVal(None)
        ELSE IF OtpCodeOf(c) = ""
        THEN /\ exc' = "AuthError"
             /\ stack' = WithTop([Top EXCEPT !.otp.code = c, !.otp.nask = Inc(@)])
             /\ ret' = RetVal(None)
        ELSE /\ stack' = Append(WithTop([Top EXCEPT !.pc = "relogin", !.otp.code = c,
                                                    !.otp.nask = Inc(@)]),
                                [Frame("_verify_otp") EXCEPT !.body = OtpCodeOf(c)])
             /\ UNCHANGED <<exc, ret>>
    /\ Quiet
    /\ UNCHANGED <<self, call, pending>>

\* await self.login()
LoginRecurse ==
    /\ AtPc("login", "relogin")
    /\ stack' = Await("return", Frame("login"))
    /\ Quiet
    /\ UNCHANGED <<self, exc, ret, call, pending>>

\* return, through the finally clause
LoginReturn ==
    /\ AtPc("login", "return")
    /\ self' = LoginFinally(self)
    /\ stack' = Rest
    /\ ret' = RetVal(None)
    /\ loginExit' = LoginExited("return", NoExc, Top)
    /\ sent' = NoSent
    /\ poll' = NoPoll
    /\ UNCHANGED <<exc, call, pending>>
    /\ UNCHANGED <<log, tasks>>

-----------------------------------------------------------------------------
(* _send_otp and _verify_otp *)

\* a _send_otp that would take any notify_type
ValidNotifyTypeAny(notify_type) == TRUE

\* notify_type in ("EMAIL", "SMS")
ValidNotifyType(notify_type) == notify_type \in {"EMAIL", "SMS"}

SendOtpInvalid ==
    /\ AtPc("_send_otp", "start")
    /\ ~ValidNotifyType(Top.name) \/ self.otp_key = None
    /\ exc' = "ValueError"
    /\ stack' = UnwindTo(stack, "ValueError")
    /\ ret' = RetVal(None)
    /\ Quiet
    /\ UNCHANGED <<self, call, pending>>

SendOtpRequest ==
    /\ AtPc("_send_otp", "start")
    /\ ValidNotifyType(Top.name) /\ self.otp_key # None
    /\ self' = [self EXCEPT !.notify_type = Top.name]
    /\ stack' = Await("done", ReqFrame("sendOTP", FALSE, None, "-"))
    /\ Quiet
    /\ UNCHANGED <<exc, ret, call, pending>>

SendOtpReturn ==
    /\ AtPc("_send_otp", "done")
    /\ stack' = Rest
    /\ ret' = RetVal(None)
    /\ Quiet
    /\ UNCHANGED <<self, exc, call, pending>>

VerifyOtpRequest ==
    /\ AtPc("_verify_otp", "start")
    /\ stack' = Await("after", ReqFrame("verifyOTP", FALSE, None, Top.body))
    /\ Quiet
    /\ UNCHANGED <<self, exc, ret, call, pending>>

\* the statements of _verify_otp after its request
VerifyOtpAfter ==
    /\ AtPc("_verify_otp", "after")
    /\ LET resp == ret.resp
           cleared == VerifyClear(self)
       IN  IF resp.status.statusCode # 0
           THEN /\ self' = cleared
                /\ exc' = "Exception"
                /\ stack' = UnwindTo(stack, "Exception")
                /\ ret' = RetVal(None)
           ELSE IF ~Truthy(resp.sid) \/ ~Truthy(resp.rmtoken)
           THEN /\ self' = cleared
                /\ exc' = "AuthError"
                /\ stack' = UnwindTo(stack, "AuthError")
                /\ ret' = RetVal(None)
           ELSE /\ self' = VerifyStore(cleared, resp)
                /\ stack' = [Rest EXCEPT ![Len(Rest)].otp.verified = TRUE,
                                         ![Len(Rest)].otp.vsid = resp.sid,
                                         ![Len(Rest)].otp.vrm = resp.rmtoken,
                                         ![Len(Rest)].otp.stale = "-"]
                /\ ret' = RetVal(None)
                /\ UNCHANGED exc
    /\ Quiet
    /\ UNCHANGED <<call, pending>>

-----------------------------------------------------------------------------
(* Exceptions *)

Raising == stack # <<>> /\ exc # NoExc

\* request_with_active_session: except AuthError, reset and call func again
RepairAndRetry ==
    /\ Raising
    /\ Catches(Top, exc)
    /\ self' = Repair(self)
    /\ stack' = WithTop([Wrapped(Top.fn, Top.vid,
                                 IF Top.fn = "check_last_action_finished" THEN "-" ELSE Top.name)
                            EXCEPT !.attempt = 2])
    /\ exc' = NoExc
    /\ ret' = RetVal(None)
    /\ call' = [call EXCEPT !.before = Forgotten]
    /\ Quiet
    /\ UNCHANGED pending

\* the exception leaves login: through the finally clause if it was raised in the try block
LoginRaise ==
    /\ Raising
    /\ Top.fn = "login"
    /\ self' = IF Top.pc \in TryPcs THEN LoginFinally(self) ELSE self
    /\ stack' = UnwindTo(Rest, exc)
    /\ loginExit' = LoginExited("raise", exc, Top)
    /\ call' = [call EXCEPT !.loginAuth = IF @ = "-" /\ exc = "AuthError"
                                                /\ stack[1].attempt = 1
                                             THEN "failed" ELSE @]
    /\ sent' = NoSent
    /\ poll' = NoPoll
    /\ UNCHANGED <<exc, ret, pending>>
    /\ UNCHANGED <<log, tasks>>

-----------------------------------------------------------------------------
Next ==
    \/ CallGetVehicles \/ CallStatus \/ CallCheckLastActionFinished \/ CallCommand
    \/ CallLogin \/ Finish
    \/ GetVehiclesRequest \/ GetVehiclesStore
    \/ FindVehicleKeyFetch \/ FindVehicleKeyScan
    \/ StatusFind \/ StatusRequest \/ StatusReturn
    \/ PollFind \/ PollVacuous \/ PollRequest \/ PollFinish
    \/ CommandPoll \/ CommandRefuse \/ CommandFind \/ CommandRequest \/ CommandMark
    \/ RequestLogin \/ RequestSend
    \/ LoginRequest \/ LoginDirect \/ LoginChallenge \/ LoginNoSession
    \/ LoginChoose \/ LoginInput \/ LoginRecurse \/ LoginReturn
    \/ SendOtpInvalid \/ SendOtpRequest \/ SendOtpReturn
    \/ VerifyOtpRequest \/ VerifyOtpAfter
    \/ RepairAndRetry \/ LoginRaise

Spec == Init /\ [][Next]_vars

-----------------------------------------------------------------------------
(* The client used through login() alone, with a server that may answer the
   re-entered login() with a challenge of its own *)

RequestSendNested == RequestSendUpTo(MaxNested)

NextLogin ==
    \/ CallLogin \/ Finish
    \/ RequestSendNested
    \/ LoginRequest \/ LoginDirect \/ LoginChallenge \/ LoginNoSession
    \/ LoginChoose \/ LoginInput \/ LoginRecurse \/ LoginReturn
    \/ SendOtpInvalid \/ SendOtpRequest \/ SendOtpReturn
    \/ VerifyOtpRequest \/ VerifyOtpAfter
    \/ LoginRaise

SpecLogin == Init /\ [][NextLogin]_vars

-----------------------------------------------------------------------------
(* clean_dictionary_for_logging applied to a dictionary, and then to its own
   result *)

InitLog == Constructed /\ log \in { Logging(d) : d \in Documents } /\ tasks = NoTasks

LogClean ==
    /\ log.out = 0
    /\ LET r == clean_dictionary_for_logging(log.heap, log.doc)
       IN  log' = [log EXCEPT !.heap = r.heap, !.out = r.at, !.once = ValueAt(r.heap, r.at)]
    /\ UNCHANGED <<client, tasks>>

LogCleanAgain ==
    /\ log.out # 0 /\ log.again = 0
    /\ LET r == clean_dictionary_for_logging(log.heap, log.out)
       IN  log' = [log EXCEPT !.heap = r.heap, !.again = r.at]
    /\ UNCHANGED <<client, tasks>>

NextLog == LogClean \/ LogCleanAgain

SpecLog == InitLog /\ [][NextLog]_vars

-----------------------------------------------------------------------------
(* Properties *)

\* C1: a command whose completion poll reports the earlier action incomplete raises
\* ActionAlreadyInProgressError, sends no request to a command endpoint, and
\* leaves the marker as it was when the call began.
C1_RefusedCommand ==
    (call.op \in Commands /\ call.done /\ call.pollFalse)
        => /\ call.result = "ActionAlreadyInProgressError"
           /\ call.ncmd = 0
           /\ self.last_action = call.before

\* C2: within one command call at most two authenticated requests are answered
\* with an authentication failure: the first is repaired and retried once, the
\* second propagates, and no third attempt follows.
C2_OneRetryPerCall == call.op \in Commands => call.nauthinv <= 2

\* C3: every request to a command endpoint is sent while the client holds no
\* Last Action Marker.
C3_NoMarkerAtCommand == sent.kind = "cmd" => sent.marker = NoAction

\* a command is sent in a call that began with a marker, which its poll cleared
C3_Witness ==
    /\ sent.kind = "cmd"
    /\ call.before \notin {NoAction, Forgotten}
    /\ sent.marker = NoAction

\* C4: check_last_action_finished called with no marker present reports finished
\* and sends no request at all, whatever the rest of the client state is.
C4_VacuousPoll ==
    (call.op = "check_last_action_finished" /\ call.done /\ call.before = NoAction)
        => call.result = "ok" /\ call.value = "True" /\ ~call.contacted

\* C5: when the status check of a poll succeeds, finished holds iff every value
\* of the payload is 0; the marker is cleared iff finished and otherwise stays
\* the marker the poll asked about.
C5_PollOutcome ==
    poll.seen => /\ poll.finished <=> AllZero(poll.payload)
                 /\ poll.finished => poll.after = NoAction
                 /\ ~poll.finished => poll.after = poll.before

C7_NoCodeNoVerify ==
    (loginExit.how # "none" /\ loginExit.otp.code \in {Missing, ""})
        => /\ loginExit.how = "raise"
           /\ loginExit.exc = "AuthError"
           /\ loginExit.otp.nverify = 0
           /\ self.otp_key = None
           /\ self.notify_type = None
           /\ self.last_action = NoAction

\* the dispatch went out and the answer to input_code had no otp_code
C7_Witness ==
    /\ loginExit.how = "raise"
    /\ loginExit.otp.code = Missing
    /\ loginExit.otp.nsend = 1

\* C8: whenever login() returns or raises, otp_key, notify_type and the
\* challenge's transaction id are absent.
C8_ChallengeStateGone ==
    loginExit.how # "none"
        => /\ self.otp_key = None
           /\ self.notify_type = None
           /\ self.last_action.name # "one_time_password"
           /\ loginExit.challenged => self.last_action = NoAction

\* login() raises because the dispatch request failed, after notify_type was set
C8_Witness ==
    /\ loginExit.how = "raise"
    /\ loginExit.challenged
    /\ loginExit.exc = "ClientError"
    /\ loginExit.otp.nsend = 1
    /\ loginExit.otp.nverify = 0

\* C9: only the dispatch and verify requests are built with an OTP-key header;
\* the recursive login request and every later request carry none.
C9_OtpKeyOnlyOnOtpRequests ==
    (sent.kind # "none" /\ sent.headers.otpkey # None)
        => sent.kind \in {"sendOTP", "verifyOTP"}

\* the login request of the re-entered login() goes out without the header
C9_Witness == sent.relogin /\ sent.headers.otpkey = None

\* C10: the request that follows an authenticated request answered with an
\* authentication failure is a login request, sent when session_id, the vehicle
\* directory and the marker are absent.
C10_RepairBeforeNextRequest ==
    sent.afterAuthInvalid
        => /\ sent.kind = "authUser"
           /\ sent.headers.sid = None
           /\ sent.vehiclesNone
           /\ sent.marker = NoAction

\* C11: when a command's request is acknowledged and carries a transaction id,
\* the marker becomes {name of the command called, that transaction id}; when
\* the request fails the client holds no marker, and a command that raises leaves
\* either no marker or the one the call began with.
C11_MarkerFromResponse ==
    [][ /\ (AtPc("command", "mark") /\ ret.resp.xid # None)
            => self'.last_action = [name |-> call.op, xid |-> ret.resp.xid]
        /\ (sent'.kind = "cmd" /\ exc' # NoExc) => self'.last_action = NoAction
        /\ (call'.op \in Commands /\ call'.done /\ call'.result # "ok")
            => self'.last_action \in {NoAction, call'.before}
      ]_vars

\* set_charge_limits returns in a call that began with another transaction's
\* marker: the marker now names set_charge_limits and the new transaction id
C11_Witness ==
    /\ call.op = "set_charge_limits" /\ call.done /\ call.result = "ok"
    /\ call.before.xid = "x1"
    /\ self.last_action = [name |-> "set_charge_limits", xid |-> "x2"]

\* C12: a marker created by a command goes away only in a poll that observes
\* completion, in the classifier's branch for the outstanding-operation conflict,
\* or in the session repair of request_with_active_session.
C12_MarkerRemovedOnlyBy ==
    [][ (self.last_action.name \in Commands /\ self'.last_action # self.last_action)
            => \/ poll'.seen /\ poll'.finished
               \/ sent'.kind # "none" /\ exc' = "ActionAlreadyInProgressError"
               \/ Raising /\ Top.attempt = 1 /\ exc = "AuthError" /\ exc' = NoExc
      ]_vars

\* C13: some status block the server can send is classified as the
\* outstanding-operation conflict: the classifier clears the marker and raises
\* ActionAlreadyInProgressError for it, and does not raise AuthError.
C13_ConflictCodeExists ==
    \E st \in ErrStatuses :
        /\ Classify(st) = "ActionAlreadyInProgressError"
        /\ ClassifyEffect(self, st).last_action = NoAction
        /\ ClassifyEffect(self, st).session_id = self.session_id

C15_NotFoundAfterRefresh ==
    [][ (stack # <<>> /\ Top.fn = "find_vehicle_key" /\ exc = NoExc /\ exc' = "ValueError")
            => /\ Top.pc = "scan"
               /\ stack' = <<>>
               /\ self' = self
      ]_vars

\* C16: login() fails with AuthError and the client holds no session_id when the
\* verify request is answered with a non-zero status, when the callback gives no
\* usable code, and when the login response has neither a sid nor an otpKey.
C16_LoginFailsAuthInvalid ==
    /\ (sent.kind = "verifyOTP" /\ sent.http = "ok" /\ sent.status.statusCode # 0)
          => exc = "AuthError" /\ self.session_id = None
    /\ (loginExit.how # "none" /\ loginExit.otp.code \in {Missing, "", " "})
          => /\ loginExit.how = "raise" /\ loginExit.exc = "AuthError"
             /\ self.session_id = None
    /\ (loginExit.how = "raise" /\ ~loginExit.challenged /\ loginExit.sid = None)
          => loginExit.exc = "AuthError" /\ self.session_id = None

\* C17: a failure other than AuthError raised during a call of a wrapped method
\* passes every wrapper: once raised it is never replaced, no frame is re-entered
\* (the stack unwinds to the caller, through the exits of any login() on the way),
\* the session token and the vehicle directory stay as they were when it was
\* raised, and the caller receives that failure.
C17_OtherFailuresReachCaller ==
    [][ /\ (call.op \notin {"none", "login"} /\ ~call.done /\ exc' \notin {NoExc, "AuthError"})
            => /\ exc \in {NoExc, exc'}
               /\ self'.session_id = self.session_id
               /\ self'.vehicles = self.vehicles
               /\ stack' = <<>> \/ stack'[Len(stack')].fn = "login"
               /\ Len(stack') <= Len(stack)
               /\ call'.ncmd = call.ncmd \/ exc = NoExc
        /\ (call.op \notin {"none", "login"} /\ ~call.done /\ exc \notin {NoExc, "AuthError"}
              /\ exc' = NoExc)
            => call'.done /\ call'.result = exc /\ self' = self
      ]_vars

\* a command answered with an API error: the caller gets the error, one command
\* request was sent, and the session token and the directory are still held
C17_Witness ==
    /\ call.op = "lock" /\ call.done /\ call.result = "ClientError"
    /\ call.ncmd = 1 /\ call.nauthinv = 0
    /\ self.session_id # None /\ self.vehicles # NoVehicles

\* C18: get_vehicles and get_cached_vehicle_status leave the Last Action Marker
\* alone.  No command is sent during such a call, so a command's marker held at
\* any moment of the call is the one the call started with: no step of the call
\* changes it.
C18_ReadOnlyKeepsMarker ==
    [][ (call.op \in {"get_vehicles", "get_cached_vehicle_status"} /\ ~call.done
           /\ self.last_action.name \in Commands)
            => self'.last_action = self.last_action ]_vars

\* C19: header construction with an OTP key set fails unless both the notify type
\* and the challenge's transaction id are there: no request is built with an
\* OTP-key header and without a notify type or without a transaction id.
C19_NoOtpRequestWithoutXid ==
    (sent.kind # "none" /\ sent.headers.otpkey # None)
        => sent.headers.notifytype # None /\ sent.headers.xid # None

\* C20: the headers of every request that is built: sid is there iff the client
\* holds a session token (and is that token); otpkey and notifytype are there iff
\* an OTP challenge is being answered (a login() on the stack between its dispatch
\* and its verification); vinkey is there iff the request is one of a vehicle, and
\* is the key of the call's vehicle in the directory; deviceid is the client's.
C20_ConditionalHeaders ==
    sent.kind # "none"
        => LET h == sent.headers
               answering == \E i \in Logins(stack) : stack[i].pc \in {"input", "relogin"}
               ofVehicle == sent.kind \in {"gvi", "rvs", "gts", "cmd"}
           IN  /\ h.sid = self.session_id
               /\ h.otpkey # None <=> answering
               /\ h.notifytype # None <=> answering
               /\ answering => h.otpkey = self.otp_key /\ h.notifytype = self.notify_type
               /\ h.vinkey # None <=> ofVehicle
               /\ ofVehicle => h.vinkey = FindKey(self.vehicles, call.vid)
               /\ h.deviceid = self.device_id /\ h.deviceid # None

\* the verify request of a challenge met by a command's login: OTP key and notify
\* type, no session token, no vehicle key
C20_Witness ==
    /\ sent.kind = "verifyOTP" /\ call.op = "lock"
    /\ sent.headers.otpkey = "otp1" /\ sent.headers.notifytype = "SMS"
    /\ sent.headers.sid = None /\ sent.headers.vinkey = None
    /\ sent.headers.deviceid = "dev1"

\* C21: a poll that directly follows a poll that reported finished (no command
\* and no other call in between) sends no status-check request, changes nothing
\* in the client and reports finished again.
C21_RepollFinished ==
    [][ /\ (call.op = "check_last_action_finished" /\ call.repoll # "-" /\ ~call.done)
            => /\ self' = self
               /\ sent'.kind # "gts"
               /\ exc' = NoExc
        /\ (call'.op = "check_last_action_finished" /\ call'.repoll # "-" /\ call'.done)
            => call'.result = "ok" /\ call'.value = "True" /\ ~call'.contacted
      ]_vars

\* C22: one login() call re-enters login at most once: at most two invocations of
\* login are ever on the stack, at most one of them has a challenge open, and a
\* re-entered login() never opens a challenge.
C22_OneReentry ==
    call.op = "login"
        => /\ Cardinality(Logins(stack)) <= 2
           /\ OpenChallenges <= 1
           /\ \A i \in Logins(stack) :
                 (\E j \in Logins(stack) : j < i) => stack[i].pc \notin TryPcs

\* C23: clean_dictionary_for_logging applied to its own result returns a
\* dictionary equal to that result; and after an application the dictionary it
\* was given still has the value it had before.
C23_CleanIdempotent ==
    /\ log.out # 0 => ValueAt(log.heap, log.doc) = log.input
    /\ log.again # 0
          => /\ ValueAt(log.heap, log.again) = log.once
             /\ ValueAt(log.heap, log.out) = log.once
             /\ ValueAt(log.heap, log.doc) = log.input

\* a dictionary with a sensitive key inside a dictionary inside a list, cleaned
\* twice: both results show the mask, the input still shows the value
C23_Witness ==
    /\ log.again # 0
    /\ log.input = [key |-> "-", type |-> "dict", str |-> "-", items |->
          <<Under("name", [key |-> "-", type |-> "list", str |-> "-", items |->
              <<[key |-> "-", type |-> "dict", str |-> "-", items |->
                  <<Under("Vin", Str("x"))>>]>>])>>]
    /\ log.once # log.input
    /\ ValueAt(log.heap, log.again) = log.once
    /\ ValueAt(log.heap, log.doc) = log.input

\* redaction at every depth: what the log is meant to show of a value
RECURSIVE Redacted(_)
Redacted(node) ==
    IF node.type = "str" THEN node
    ELSE [node EXCEPT !.items =
            [i \in 1..Len(node.items) |->
                IF node.type = "dict" /\ Lower(node.items[i].key) \in SENSITIVE_FIELD_NAMES
                THEN Under(node.items[i].key, Str(Mask))
                ELSE Redacted(node.items[i])]]

\* C24: the result of clean_dictionary_for_logging is its argument with the value
\* under every sensitive key, at every depth through dictionaries and lists,
\* replaced by the mask and nothing else changed.
C24_MaskedAtEveryDepth ==
    log.out # 0 => log.once = Redacted(log.input)

\* C25: a request answered with a body that is not JSON raises ClientError (the
\* API error) and nothing else, and leaves the client's fields as they were.
C25_UnparseableIsApiError ==
    [][ sent'.http = "garbled" => exc' = "ClientError" /\ self' = self ]_vars

\* C26: each of the three transport wrappers answers the manufacturer's
\* throttling signal with RateError: some response of the server's is classified
\* so by the US Hyundai wrapper, by the Canadian wrapper and, among the replies
\* the server may give to a command, by the US Kia wrapper.
C26_ThrottlingIsRateError ==
    /\ \E body \in UsHyundaiBodies : UsHyundaiClassify(body) = "RateError"
    /\ \E body \in CaBodies : CaClassify(body) = "RateError"
    /\ \E reply \in Replies("cmd", OpenChallenges < MaxChallenges) :
          Outcome(reply) = "RateError"

\* C27: in the login() that is answering a challenge the events come in one
\* order and once each.  The dispatch request follows the first callback and goes
\* to the channel it named (e-mail when it named none); the second callback
\* follows the dispatch; the verify request follows the second callback and
\* carries its code; login is re-entered only after a successful verify.  An
\* event that failed is the last one.
C27_ChallengeOrder ==
    \A i \in Logins(stack) :
        (stack[i].pc \in TryPcs /\ \A j \in Logins(stack) : j > i => stack[j].pc \notin TryPcs)
            => LET o == stack[i].otp
                   asked == (IF o.choice # "-" THEN 1 ELSE 0) + (IF o.code # "-" THEN 1 ELSE 0)
               IN  /\ o.nask = asked
                   /\ o.nsend <= 1 /\ o.nverify <= 1
                   /\ o.nsend = 1 => /\ o.choice \in {Missing, "SMS", "sms"}
                                     /\ o.choice \in {"SMS", "sms"} => o.sendType = "SMS"
                                     /\ o.choice = Missing => o.sendType = "EMAIL"
                   /\ o.code # "-" => o.nsend = 1
                   /\ o.nverify = 1 => /\ o.code \notin {"-", Raises, Missing, "", " "}
                                       /\ o.verifyCode = o.code
                   /\ o.verified => o.nverify = 1
                   /\ (\E j \in Logins(stack) : j > i) => o.verified
                   /\ exc # NoExc /\ Len(stack) = i
                         => /\ o.choice = Raises => o.nsend = 0 /\ o.code = "-"
                            /\ o.code = Raises => o.nverify = 0
                            /\ o.nsend = 1 /\ o.code = "-" => o.nverify = 0

\* the login request of the re-entered login() goes out after one callback round
\* by SMS, one dispatch and one verify
C27_Witness ==
    /\ sent.relogin
    /\ \E i \in Logins(stack) :
          /\ stack[i].pc = "return"
          /\ stack[i].otp.choice = "sms" /\ stack[i].otp.sendType = "SMS"
          /\ stack[i].otp.nask = 2 /\ stack[i].otp.nsend = 1 /\ stack[i].otp.nverify = 1
          /\ stack[i].otp.verified

C29_FetchWhenEmpty ==
    [][ AtPc("find_vehicle_key", "start")
            => IF self.vehicles = NoVehicles \/ self.vehicles = <<>>
               THEN /\ Len(stack') = Len(stack) + 1
                    /\ stack'[Len(stack')].fn = "get_vehicles"
               ELSE /\ Len(stack') < Len(stack)
                    /\ sent'.kind = "none" ]_vars

\* C30: a login() answered with a sid header stores that sid and nothing else:
\* from its first statement to its return the marker, the directory and the
\* refresh token stay as they were, the OTP callback is never invoked and no
\* sendOTP or verifyOTP request is sent.
C30_DirectLoginFrame ==
    [][ /\ AtPc("login", "start") => self' = self
        /\ sent'.kind = "authUser" /\ exc' = NoExc => self' = self
        /\ loginExit'.how = "return" /\ ~loginExit'.challenged
              => /\ Truthy(ret.resp.sid)
                 /\ self' = [self EXCEPT !.session_id = ret.resp.sid]
                 /\ loginExit'.otp.nask = 0
                 /\ loginExit'.otp.nsend = 0
                 /\ loginExit'.otp.nverify = 0
                 /\ sent'.kind = "none" ]_vars

\* a direct login has returned on a client that holds a marker, a directory and
\* a refresh token
C30_Witness ==
    /\ loginExit.how = "return"
    /\ ~loginExit.challenged
    /\ self.session_id = loginExit.sid
    /\ self.last_action # NoAction
    /\ self.vehicles # NoVehicles
    /\ self.vehicles # <<>>
    /\ self.refresh_token # None

-----------------------------------------------------------------------------
(* _api_headers called on its own, on a client in any state its attributes
   can take *)

ClientStates ==
    { [otp_key |-> k, last_action |-> a, session_id |-> s, refresh_token |-> r,
       notify_type |-> n, device_id |-> "dev1", vehicles |-> v] :
        k \in OtpKeys \cup {None},
        a \in {NoAction, [name |-> "one_time_password", xid |-> "x0"],
               [name |-> "lock", xid |-> "x1"]},
        s \in Sids \cup {None},
        r \in RmTokens \cup {None},
        n \in {None, "EMAIL", "SMS"},
        v \in {NoVehicles} \cup Directories }

InitHeaders ==
    /\ self \in ClientStates
    /\ stack = <<>>
    /\ exc = NoExc
    /\ ret = RetVal(None)
    /\ call = NoCall
    /\ pending = FALSE
    /\ sent = NoSent
    /\ poll = NoPoll
    /\ loginExit = NoLoginExit
    /\ log = NoLog
    /\ tasks = NoTasks

\* headers = self._api_headers(vehicle_key=vehicle_key): sent.headers is the
\* dict returned, exc the ValueError raised
BuildHeaders ==
    \E vehicle_key \in {None, "k1"} :
        /\ call.op = "none"
        /\ call' = [NoCall EXCEPT !.op = "_api_headers"]
        /\ self' = AfterApiHeaders(self, vehicle_key)
        /\ IF ApiHeaders(self, vehicle_key).error
           THEN exc' = "ValueError" /\ sent' = sent
           ELSE exc' = exc /\ sent' = [NoSent EXCEPT !.headers = ApiHeaders(self, vehicle_key)]
        /\ UNCHANGED <<stack, ret, pending, poll, loginExit, log, tasks>>

NextHeaders == BuildHeaders

SpecHeaders == InitHeaders /\ [][NextHeaders]_vars

-----------------------------------------------------------------------------

\* C31: a call of the header builder leaves session_id, refresh_token, the OTP
\* attributes, the directory and the marker as they were, when it returns
\* headers and when it raises ValueError.
C31_HeadersChangeNothing ==
    [][ call'.op = "_api_headers" /\ call.op = "none"
            => /\ self' = self
               /\ exc' = "ValueError" \/ sent'.headers = ApiHeaders(self', sent'.headers.vinkey) ]_vars

\* the builder has raised on a client with a session, an OTP key and a marker
C31_Witness ==
    /\ call.op = "_api_headers"
    /\ exc = "ValueError"
    /\ self.otp_key # None
    /\ self.session_id # None
    /\ self.last_action # NoAction
    /\ self.vehicles # NoVehicles

\* C32: a request with authed=True goes out with a sid header.  When session_id
\* is None as the request function starts, login() is awaited before anything
\* is sent, and the request is sent only after that login() has returned: a
\* login() that raised is followed by no request.  The authUser, sendOTP and
\* verifyOTP requests never make the request function call login().
C32_SessionBeforeAuthedRequest ==
    [][ /\ sent'.kind # "none" /\ sent'.authed => sent'.headers.sid # None
        /\ AtPc("request", "start") /\ Top.authed /\ self.session_id = None
              => /\ stack' = Await("send", Frame("login"))
                 /\ sent'.kind = "none"
        /\ AtPc("request", "send")
              => /\ loginExit.how = "return"
                 /\ self.session_id # None
                 /\ Top.authed
        /\ sent'.viaLogin => sent'.authed /\ loginExit.how = "return"
        /\ loginExit.how = "raise" => sent'.kind = "none"
        /\ AtPc("request", "start") /\ Top.kind \in {"authUser", "sendOTP", "verifyOTP"}
              => /\ ~Top.authed
                 /\ Len(stack') < Len(stack) \/ exc' # NoExc ]_vars

\* a command request has been sent after the login() it waited for went through
\* an OTP challenge
C32_Witness ==
    /\ sent.kind = "cmd"
    /\ sent.viaLogin
    /\ sent.headers.sid # None
    /\ sent.headers.rmtoken # None
    /\ call.op \in Commands

\* C33: in a call of a wrapped method, a login() that raises AuthError during
\* the first run of the method is caught by request_with_active_session: by the
\* time the call ends the state has been reset, the method has been run again
\* and login() has been entered a second time.
C33_LoginFailureRepaired ==
    /\ call.done /\ call.op # "login" /\ call.loginAuth # "-"
          => call.before = Forgotten /\ call.loginAuth = "again"
    /\ call.done /\ call.op # "login" /\ call.result = "AuthError"
          => call.before = Forgotten

\* the first run of a wrapped method ended with a login() that raised AuthError
\* without any authenticated request having been rejected; in the second run
\* login() has met a challenge again and the callback has been asked again
C33_Witness ==
    /\ ~call.done
    /\ call.loginAuth = "again"
    /\ call.nauthinv = 0
    /\ stack # <<>>
    /\ stack[1].attempt = 2
    /\ AtPc("login", "input")
    /\ Top.otp.nask >= 1
    /\ Top.otp.nsend >= 1

\* C34: when the login response that opens a challenge carries rmTokenExpired,
\* refresh_token is None from the first statement of the challenge on, and the
\* sendOTP and verifyOTP requests of that challenge carry no rmtoken header.
C34_NoStaleRefreshToken ==
    /\ AtPc("login", "choose") /\ Top.otp.stale # "-" => self.refresh_token = None
    /\ sent.kind \in {"sendOTP", "verifyOTP"} /\ Logins(stack) # {}
       /\ stack[Innermost(Logins(stack))].otp.stale # "-"
          => sent.headers.rmtoken = None

\* a verify request has gone out in a challenge whose login response flagged the
\* stored refresh token r1 as expired
C34_Witness ==
    /\ sent.kind = "verifyOTP"
    /\ Logins(stack) # {}
    /\ stack[Innermost(Logins(stack))].otp.stale = "r1"
    /\ stack[Innermost(Logins(stack))].otp.nsend = 1
    /\ sent.headers.rmtoken = None
    /\ sent.headers.otpkey # None

\* C35: no step changes device_id.  refresh_token changes in two steps only: the
\* end of _verify_otp, which stores the rmtoken header of a verify response with
\* status 0, a sid and an rmtoken, and the head of login's OTP branch, which
\* sets it to None when the response carries rmTokenExpired.  The except
\* AuthError handler of the wrapper changes neither.
C35_TokenAndDeviceFrame ==
    [][ /\ self'.device_id = self.device_id
        /\ self'.refresh_token # self.refresh_token
              => \/ /\ AtPc("_verify_otp", "after")
                    /\ ret.resp.status.statusCode = 0
                    /\ Truthy(ret.resp.sid) /\ Truthy(ret.resp.rmtoken)
                    /\ self'.refresh_token = ret.resp.rmtoken
                 \/ /\ AtPc("login", "response")
                    /\ ~Truthy(ret.resp.sid)
                    /\ ret.resp.otpKey # None
                    /\ ret.resp.rmTokenExpired
                    /\ self'.refresh_token = None
        /\ Raising /\ Catches(Top, exc)
              => /\ self'.refresh_token = self.refresh_token
                 /\ self'.session_id = None ]_vars

\* the wrapper has just repaired a client that holds a refresh token: the token
\* and the device id are still there
C35_Witness ==
    /\ stack # <<>>
    /\ Top.attempt = 2 /\ Top.pc = "start"
    /\ call.before = Forgotten
    /\ call.nauthinv >= 1
    /\ self.session_id = None
    /\ self.refresh_token = "r1"
    /\ self.device_id = "dev1"
    /\ sent.kind = "none"

\* C36: a login() whose choose_destination callback answered a notify_type that
\* is neither EMAIL nor SMS once upper-cased ends by raising ValueError; it has
\* sent no sendOTP and no verifyOTP request, has invoked the callback once only,
\* and leaves otp_key, notify_type and last_action at None.
C36_BadDestinationFails ==
    loginExit.how # "none" /\ loginExit.otp.choice \notin {"-", Raises, Missing}
    /\ Upper(loginExit.otp.choice) \notin {"EMAIL", "SMS"}
        => /\ loginExit.how = "raise"
           /\ loginExit.exc = "ValueError"
           /\ exc = "ValueError"
           /\ loginExit.otp.nsend = 0
           /\ loginExit.otp.nverify = 0
           /\ loginExit.otp.nask = 1
           /\ loginExit.otp.code = "-"
           /\ self.otp_key = None
           /\ self.notify_type = None
           /\ self.last_action = NoAction

\* the login() run for a command ends on the answer PUSH
C36_Witness ==
    /\ loginExit.how = "raise"
    /\ loginExit.otp.choice = "PUSH"
    /\ loginExit.exc = "ValueError"
    /\ call.op \in Commands
    /\ self.otp_key = None

-----------------------------------------------------------------------------
(* Two commands started as concurrent asyncio tasks on one instance that holds
   a session and a directory with vehicle A, against a server that answers
   every request with status 0.  A task runs until its next network round trip
   and is suspended there; the other task may run meanwhile.  Nothing in a
   command method takes a lock. *)

TaskNames == {"lock", "unlock"}
Task(name) == [exc |-> NoExc, name |-> name, xid |-> None, pc |-> "start"]

TwoClients ==
    { [BlankSelf EXCEPT !.session_id = s, !.device_id = "dev1",
                        !.vehicles = d, !.last_action = m] :
        s \in Sids, d \in Directories \ {<<>>},
        m \in {NoAction, [name |-> "lock", xid |-> "x1"]} }

InitTwo ==
    /\ self \in TwoClients
    /\ stack = <<>>
    /\ exc = NoExc
    /\ ret = RetVal(None)
    /\ call = NoCall
    /\ pending = FALSE
    /\ sent = NoSent
    /\ poll = NoPoll
    /\ loginExit = NoLoginExit
    /\ log = NoLog
    /\ tasks \in { [NoTasks EXCEPT !.run = <<Task(a), Task(b)>>] : a \in TaskNames, b \in TaskNames }

Other(i) == 3 - i

\* the command request of task i goes out; overlap notes that the other task's
\* command request is in flight at that moment
SendCommand(t, i) ==
    [t EXCEPT !.run[i].pc = "cmd",
              !.overlap = @ \/ t.run[Other(i)].pc = "cmd"]

\* a client that would let a command start only while no other is under way
AdmittedAlone(t, i) == t.run[Other(i)].pc \notin {"gts", "cmd"}

\* a command method awaits nothing before its completion check: a task is
\* admitted whatever the other task is doing
Admitted(t, i) == TRUE

\* the task starts: check_last_action_finished finds the key in the cached
\* directory and, with no marker, returns True at once, and the command sends
\* its request; with a marker it sends the cmm/gts request
TaskStart(i) ==
    /\ tasks.run[i].pc = "start"
    /\ Admitted(tasks, i)
    /\ FindKey(self.vehicles, "A") # None
    /\ tasks' = IF self.last_action = NoAction
                THEN SendCommand(tasks, i)
                ELSE [tasks EXCEPT !.run[i].pc = "gts"]
    /\ UNCHANGED client
    /\ UNCHANGED log

\* the cmm/gts response arrives: the rest of check_last_action_finished, then
\* the command raises or sends its request
TaskPolled(i) ==
    /\ tasks.run[i].pc = "gts"
    /\ \E payload \in PollPayloads :
        LET finished == AllZero(payload)
            after == PollSettle(self, finished)
        IN  /\ self' = after
            /\ tasks' = IF PollBlocks(IF finished THEN "True" ELSE "False")
                        THEN [tasks EXCEPT !.run[i].pc = "raised",
                                           !.run[i].exc =
                                               IF after.last_action = NoAction
                                               THEN "TypeError"
                                               ELSE "ActionAlreadyInProgressError"]
                        ELSE SendCommand(tasks, i)
    /\ UNCHANGED <<stack, exc, ret, call, pending, sent, poll, loginExit, log>>

\* the command response arrives: self.last_action = {"name": ..., "xid": ...}
TaskAcked(i) ==
    /\ tasks.run[i].pc = "cmd"
    /\ \E x \in Xids :
        LET resp == [BlankReply EXCEPT !.xid = x]
        IN  /\ self' = [self EXCEPT !.last_action = CommandMarker(tasks.run[i].name, resp)]
            /\ tasks' = [tasks EXCEPT !.run[i].pc = "done", !.run[i].xid = x,
                                      !.acked = Append(@, i)]
    /\ UNCHANGED <<stack, exc, ret, call, pending, sent, poll, loginExit, log>>

NextTwo == \E i \in 1..2 : TaskStart(i) \/ TaskPolled(i) \/ TaskAcked(i)

SpecTwo == InitTwo /\ [][NextTwo]_vars

-----------------------------------------------------------------------------

\* C37: with two commands running as tasks on one instance, nothing keeps the
\* second from passing the completion check and sending its request while the
\* first is in flight; once both are acknowledged the marker is the one of the
\* task acknowledged last, and the other task's transaction id is not kept.
C37_LastAcknowledgementWins ==
    /\ Len(tasks.acked) = 2
          => LET last == tasks.run[tasks.acked[2]]
             IN  self.last_action = [name |-> last.name, xid |-> last.xid]
    /\ \A i \in 1..2 : tasks.run[i].pc = "start" => ENABLED TaskStart(i)

\* both tasks passed the completion check and had their requests in flight at
\* the same time; both were acknowledged, task 2 last, and the marker holds its
\* transaction id, not the one of task 1
C37_Witness ==
    /\ tasks.overlap
    /\ tasks.acked = <<1, 2>>
    /\ tasks.run[1].xid = "x1"
    /\ tasks.run[2].xid = "x2"
    /\ self.last_action = [name |-> tasks.run[2].name, xid |-> "x2"]

-----------------------------------------------------------------------------
(* The caller of stub.py: commands and completion polls for vehicle A, one
   after the other, on a client that holds a session and the directory, with
   a server on which nothing fails.  The caller goes on polling and goes on
   issuing commands, the event loop runs a call to its end, and the server does
   not answer the status check with a non-zero value for ever. *)

\* answers of a server on which nothing fails
HealthyReplies(kind) == { r \in OkReplies(kind, FALSE) : kind = "cmd" => r.xid # None }

RequestSendHealthy == RequestSendWith(HealthyReplies(Top.kind))

\* the status check is answered with all values 0
PollAnsweredZero ==
    /\ stack # <<>>
    /\ Top.kind = "gts"
    /\ RequestSendWith({ r \in HealthyReplies("gts") : AllZero(r.payload) })

InitStub ==
    /\ self \in { [BlankSelf EXCEPT !.session_id = s, !.device_id = "dev1", !.vehicles = d] :
                    s \in Sids, d \in Directories \ {<<>>} }
    /\ stack = <<>>
    /\ exc = NoExc
    /\ ret = RetVal(None)
    /\ call = NoCall
    /\ pending = FALSE
    /\ sent = NoSent
    /\ poll = NoPoll
    /\ loginExit = NoLoginExit
    /\ log = NoLog
    /\ tasks = NoTasks

\* await api.lock(vehicle_id=vehicle_id), await api.unlock(vehicle_id=vehicle_id)
StubCommand == \E name \in TaskNames : Invoke(name, "A", Wrapped("command", "A", name))

\* await api.check_last_action_finished(vehicle_id=vehicle_id)
StubPoll ==
    Invoke("check_last_action_finished", "A", Wrapped("check_last_action_finished", "A", "-"))

NextStub ==
    \/ StubCommand \/ StubPoll \/ Finish
    \/ FindVehicleKeyScan
    \/ PollFind \/ PollVacuous \/ PollRequest \/ PollFinish
    \/ CommandPoll \/ CommandRefuse \/ CommandFind \/ CommandRequest \/ CommandMark
    \/ RequestSendHealthy

SpecStub ==
    /\ InitStub
    /\ [][NextStub]_vars
    /\ WF_vars(NextStub)
    /\ SF_vars(StubPoll)
    /\ SF_vars(StubCommand)
    /\ SF_vars(PollAnsweredZero)

-----------------------------------------------------------------------------

\* C38: on a server where nothing fails and the status check is not answered
\* with a non-zero value for ever, a caller that keeps polling sees a poll
\* report finished with the marker cleared whenever a marker is held; after a
\* finished poll a command request is sent; and a command called with no marker
\* held is sent and does not raise.
C38_PollingFinishes ==
    /\ (self.last_action # NoAction) ~> (poll.finished /\ self.last_action = NoAction)
    /\ poll.finished ~> (sent.kind = "cmd")
    /\ [](call.done /\ call.op \in Commands /\ call.before = NoAction
            => call.result = "ok" /\ call.ncmd = 1)

\* a poll called by the caller after lock has reported finished and cleared
\* the marker
C38_Witness ==
    /\ poll.finished
    /\ poll.before.name = "lock"
    /\ poll.payload = <<0, 0>>
    /\ self.last_action = NoAction
    /\ call.op = "check_last_action_finished"
    /\ call.before.name = "lock"

=============================================================================
